---------------------------- MODULE Spec2Model ----------------------------
(***************************************************************************)
(* photocatalog: the HTTP service (photocatalog-api/server.js) and the     *)
(* NAS indexing job (photocatalog-api/index_nas.js).                       *)
(*                                                                         *)
(* Spec        : the service: configuration, the usuarios table, the       *)
(*               requests in flight (one action per step of a handler      *)
(*               between two awaits that touch shared state) and the clock.*)
(* SpecIndexer : the indexing job, run up to MaxRuns times over one root.  *)
(***************************************************************************)
EXTENDS Integers, Sequences, FiniteSets, TLC

VARIABLES
    \* ---- configuration (process.env) ----
    JWT_SECRET,       \* server.js:17
    NAS_ROOT_PATH,    \* index_nas.js:10
    \* ---- the store ----
    usuarios,         \* table usuarios: rows [id, usuario, senha_hash, nome_completo]
    nextId,           \* the serial sequence behind usuarios.id
    catalogo_pecas,   \* table catalogo_pecas: rows [cod_peca, caminho_nas, data_indexacao]
    \* ---- the service ----
    listening,        \* app.listen has been called
    now,              \* the clock, in seconds (Math.floor(Date.now() / 1000))
    issued,           \* the tokens Login has handed out
    reqs,             \* the requests in flight, each with its handler's position and locals
    nreq,             \* requests received so far
    lastResp,         \* the response sent last
    resetOld,         \* history: per login, the passwords a completed admin reset overwrote
    voided,           \* history: per login, the passwords overwritten by a reset and not set again since
    \* ---- the indexing job ----
    fsRoot,           \* the root directory: entry name -> "dir" | "file"
    ipc,              \* position of startIndexing
    client,           \* the pooled connection: "none" | "held" | "released"
    task,             \* per entry of items: position/outcome of its async callback
    indexedCount,     \* index_nas.js:33
    errorCount,       \* index_nas.js:34
    run,              \* which run of the job this is
    failed,           \* history: some connect/readdir/stat/upsert of this run failed
    snap              \* history: the catalogue and the counts at the end of each run

svars == <<JWT_SECRET, usuarios, nextId, listening, now, issued, reqs, nreq,
           lastResp, resetOld, voided>>
ivars == <<NAS_ROOT_PATH, fsRoot, ipc, client, task, indexedCount, errorCount,
           run, failed, snap>>
vars == <<svars, ivars, catalogo_pecas>>

Undefined == "undefined"

\* an unset NAS_ROOT_PATH (undefined or the empty string: both are falsy)
NoRoot == <<>>

-----------------------------------------------------------------------------
(* Bounds of the model *)

\* runs of the indexing job over the same root
MaxRuns == 2
\* requests the service receives in one behaviour
MaxReq == 3

-----------------------------------------------------------------------------
(* Paths: a path is the sequence of its segments below "/" *)

IsPrefix(p, q) == Len(p) <= Len(q) /\ SubSeq(q, 1, Len(p)) = p

\* path.normalize of an absolute path: "." and empty segments vanish, ".."
\* removes the segment before it (and is dropped at the root)
RECURSIVE NormalizeFrom(_, _)
NormalizeFrom(acc, rest) ==
    IF rest = <<>> THEN acc
    ELSE LET s == Head(rest) IN
         IF s = "." \/ s = "" THEN NormalizeFrom(acc, Tail(rest))
         ELSE IF s = ".."
              THEN NormalizeFrom(IF acc = <<>> THEN acc
                                 ELSE SubSeq(acc, 1, Len(acc) - 1), Tail(rest))
              ELSE NormalizeFrom(Append(acc, s), Tail(rest))

\* a join that keeps the segments as they come (no normalisation)
PathJoinRaw(dir, name) == dir \o name

\* path.join(dir, name): concatenate, then normalize
PathJoin(dir, name) == NormalizeFrom(<<>>, dir \o name)


-----------------------------------------------------------------------------
(* The indexing job: index_nas.js *)

\* the entries a root directory may hold
Items == {"PN-100", "PN-200", "readme.txt"}

\* a configured NAS_ROOT_PATH
NasRoot == <<"nas", "fotos">>

\* the root directories the job is run over
Roots == UNION {[S -> {"dir", "file"}] : S \in SUBSET Items}

Dirs == {i \in DOMAIN fsRoot : fsRoot[i] = "dir"}
Files == {i \in DOMAIN fsRoot : fsRoot[i] = "file"}

\* an entry left by an earlier indexing of another root
StaleRow == [cod_peca |-> "PN-100", caminho_nas |-> <<"old", "PN-100">>,
             data_indexacao |-> 0]

NoTasks == [i \in {} |-> "stat"]

Settled == {"ok", "notdir", "err"}

\* a plain INSERT into a table with no unique key: a second row per code
InsertNoConflict(cat, cod, path, ts) ==
    cat \cup {[cod_peca |-> cod, caminho_nas |-> path, data_indexacao |-> ts]}

\* INSERT ... ON CONFLICT (cod_peca) DO UPDATE SET caminho_nas, data_indexacao
Upsert(cat, cod, path, ts) ==
    {r \in cat : r.cod_peca # cod}
        \cup {[cod_peca |-> cod, caminho_nas |-> path, data_indexacao |-> ts]}

\* Promise.race: the first settled callback ends the wait
AnySettled == \E i \in DOMAIN task : task[i] \in Settled

\* await Promise.all(processingPromises): no callback rejects (each catches
\* its own failure), so the wait ends when every one has settled
AllSettled == \A i \in DOMAIN task : task[i] \in Settled

\* the catalogue without its timestamps
Entries(cat) == {[cod_peca |-> r.cod_peca, caminho_nas |-> r.caminho_nas] : r \in cat}

\* if (!NAS_ROOT_PATH) process.exit(1), else startIndexing() is entered
IndexerLoad ==
    /\ ipc = "load"
    /\ ipc' = IF NAS_ROOT_PATH = NoRoot THEN "aborted" ELSE "connect"
    /\ UNCHANGED <<svars, catalogo_pecas, NAS_ROOT_PATH, fsRoot, client, task,
                   indexedCount, errorCount, run, failed, snap>>

\* client = await pool.connect(): a failure goes to the outer catch
IndexerConnect ==
    /\ ipc = "connect"
    /\ \/ /\ client' = "held"
          /\ ipc' = "readdir"
          /\ UNCHANGED failed
       \/ /\ failed' = TRUE
          /\ ipc' = "finally"
          /\ UNCHANGED client
    /\ UNCHANGED <<svars, catalogo_pecas, NAS_ROOT_PATH, fsRoot, task,
                   indexedCount, errorCount, run, snap>>

\* items = await fs.readdir(NAS_ROOT_PATH); items.map starts one callback per
\* item, each up to its await fs.stat
IndexerReaddir ==
    /\ ipc = "readdir"
    /\ \/ /\ task' = [i \in DOMAIN fsRoot |-> "stat"]
          /\ ipc' = "await"
          /\ UNCHANGED failed
       \/ /\ failed' = TRUE
          /\ ipc' = "finally"
          /\ UNCHANGED task
    /\ UNCHANGED <<svars, catalogo_pecas, NAS_ROOT_PATH, fsRoot, client,
                   indexedCount, errorCount, run, snap>>

\* a callback after await fs.stat(itemPath): a directory issues its upsert,
\* anything else ends silently, a failed stat is caught and counted
TaskStat(i) ==
    /\ i \in DOMAIN task
    /\ task[i] = "stat"
    /\ \/ /\ task' = [task EXCEPT ![i] = IF fsRoot[i] = "dir" THEN "upsert" ELSE "notdir"]
          /\ UNCHANGED <<errorCount, failed>>
       \/ /\ task' = [task EXCEPT ![i] = "err"]
          /\ errorCount' = errorCount + 1
          /\ failed' = TRUE
    /\ UNCHANGED <<svars, catalogo_pecas, NAS_ROOT_PATH, fsRoot, ipc, client,
                   indexedCount, run, snap>>

\* a callback after await client.query(upsert): counted as indexed, or caught
\* and counted as an error
TaskUpsert(i) ==
    /\ i \in DOMAIN task
    /\ task[i] = "upsert"
    /\ \/ /\ catalogo_pecas' = Upsert(catalogo_pecas, i, PathJoin(NAS_ROOT_PATH, <<i>>), run)
          /\ task' = [task EXCEPT ![i] = "ok"]
          /\ indexedCount' = indexedCount + 1
          /\ UNCHANGED <<errorCount, failed>>
       \/ /\ task' = [task EXCEPT ![i] = "err"]
          /\ errorCount' = errorCount + 1
          /\ failed' = TRUE
          /\ UNCHANGED <<catalogo_pecas, indexedCount>>
    /\ UNCHANGED <<svars, NAS_ROOT_PATH, fsRoot, ipc, client, run, snap>>

\* await Promise.all(...) returns
IndexerJoin ==
    /\ ipc = "await"
    /\ AllSettled
    /\ ipc' = "finally"
    /\ UNCHANGED <<svars, catalogo_pecas, NAS_ROOT_PATH, fsRoot, client, task,
                   indexedCount, errorCount, run, failed, snap>>

\* finally: release the client if there is one, end the pool, log the counts
IndexerFinally ==
    /\ ipc = "finally"
    /\ client' = IF client = "held" THEN "released" ELSE client
    /\ snap' = Append(snap, [entries |-> Entries(catalogo_pecas),
                             rows |-> Cardinality(catalogo_pecas),
                             indexed |-> indexedCount,
                             errors |-> errorCount])
    /\ ipc' = "exited"
    /\ UNCHANGED <<svars, catalogo_pecas, NAS_ROOT_PATH, fsRoot, task,
                   indexedCount, errorCount, run, failed>>

\* the job is started again over the same root
IndexerRerun ==
    /\ ipc = "exited"
    /\ run < MaxRuns
    /\ run' = run + 1
    /\ ipc' = "load"
    /\ client' = "none"
    /\ task' = NoTasks
    /\ indexedCount' = 0
    /\ errorCount' = 0
    /\ failed' = FALSE
    /\ UNCHANGED <<svars, catalogo_pecas, NAS_ROOT_PATH, fsRoot, snap>>

IndexerIdle ==
    /\ fsRoot = [i \in {} |-> "dir"]
    /\ ipc = "off"
    /\ client = "none"
    /\ task = NoTasks
    /\ indexedCount = 0
    /\ errorCount = 0
    /\ run = 0
    /\ failed = FALSE
    /\ snap = <<>>

ServerIdle ==
    /\ JWT_SECRET = Undefined
    /\ usuarios = {}
    /\ nextId = 1
    /\ listening = FALSE
    /\ now = 0
    /\ issued = {}
    /\ reqs = {}
    /\ nreq = 0
    /\ lastResp = [kind |-> "none", status |-> 0, auth |-> "n/a",
                   tok |-> [id |-> 0, usuario |-> "", iat |-> 0, exp |-> 0, key |-> "none"],
                   vnow |-> 0, user |-> [id |-> 0, usuario |-> ""], body |-> Undefined]
    /\ resetOld = [u \in {} |-> {}]
    /\ voided = [u \in {} |-> {}]

InitIndexer ==
    /\ ServerIdle
    /\ NAS_ROOT_PATH \in {NoRoot, NasRoot}
    /\ fsRoot \in Roots
    /\ catalogo_pecas \in {{}, {StaleRow}}
    /\ ipc = "load"
    /\ client = "none"
    /\ task = NoTasks
    /\ indexedCount = 0
    /\ errorCount = 0
    /\ run = 1
    /\ failed = FALSE
    /\ snap = <<>>

NextIndexer ==
    \/ IndexerLoad
    \/ IndexerConnect
    \/ IndexerReaddir
    \/ \E i \in Items : TaskStat(i)
    \/ \E i \in Items : TaskUpsert(i)
    \/ IndexerJoin
    \/ IndexerFinally
    \/ IndexerRerun

SpecIndexer == InitIndexer /\ [][NextIndexer]_vars

-----------------------------------------------------------------------------
(* The service: server.js *)

Logins == {"ana", "bob"}
Passwords == {"p1", "p2"}
Salts == {"s1", "s2"}

\* a configured JWT_SECRET and the configured ADMIN_API_KEY
Secret == "s3cret"
AdminKey == "adm"

\* expiresIn: '1d', in seconds
ExpiresIn == 86400

\* the instants the clock is observed at
Times == {0, 86399, 86400}

\* bcrypt.hash(senha, saltRounds): a fresh salt each time
BcryptHash(pw, salt) == [pw |-> pw, salt |-> salt]

\* bcrypt.compare(senha, hash): re-hashes senha under the hash's salt
BcryptCompare(pw, h) == BcryptHash(pw, h.salt) = h

\* jwt.sign({id, usuario}, secret, {expiresIn: '1d'}) at time t
JwtSign(user, secret, t) ==
    [id |-> user.id, usuario |-> user.usuario, iat |-> t, exp |-> t + ExpiresIn,
     key |-> secret]

\* a token this service did not sign
Forged == [id |-> 1, usuario |-> "ana", iat |-> 0, exp |-> 10 * ExpiresIn,
           key |-> "other"]

\* no token / no req.user
NoTok == [id |-> 0, usuario |-> "", iat |-> 0, exp |-> 0, key |-> "none"]
NoUser == [id |-> 0, usuario |-> ""]

\* what a request may carry as its token: nothing, or a token in the
\* Authorization header ("Bearer <token>") or in the query (?token=)
NoToken == [transport |-> "none", tok |-> NoTok]
Creds == {NoToken} \cup
         [transport : {"bearer", "query"}, tok : issued \cup {Forged}]

\* a check of the expiry that lets the token through at the very instant it expires
JwtVerifyLate(tok, secret, t) ==
    /\ secret # Undefined
    /\ tok.key = secret
    /\ t <= tok.exp

\* jwt.verify(token, secret) at time t: the signature, then exp (expired when
\* the clock has reached exp)
JwtVerify(tok, secret, t) ==
    /\ secret # Undefined
    /\ tok.key = secret
    /\ t < tok.exp

\* the token verifyToken takes from the request: the Authorization header
\* with its "Bearer " prefix sliced off, else the query's token, else none
TokenOf(cred) ==
    CASE cred.transport = "bearer" -> cred.tok
      [] cred.transport = "query" -> cred.tok
      [] OTHER -> NoTok

\* verifyToken: 401 without a token, 403 when jwt.verify throws, else next()
\* with req.user = decoded
VerifyToken(cred, secret, t) ==
    LET token == TokenOf(cred)
    IN IF token = NoTok
       THEN [auth |-> "401", user |-> NoUser]
       ELSE IF JwtVerify(token, secret, t)
            THEN [auth |-> "ok", user |-> [id |-> token.id, usuario |-> token.usuario]]
            ELSE [auth |-> "403", user |-> NoUser]

\* verifyAdminKey
VerifyAdminKey(key) == key # Undefined /\ key = AdminKey

\* the unique constraint on usuarios.usuario
UniqueViolation(tbl, u) == \E x \in tbl : x.usuario = u

NewRow(id, u, h, n) == [id |-> id, usuario |-> u, senha_hash |-> h, nome_completo |-> n]

\* INSERT ... ON CONFLICT (usuario) DO UPDATE: overwrites the row that is there
InsertOrReplaceUsuario(tbl, id, u, h, n) ==
    [code |-> "ok", rows |-> {x \in tbl : x.usuario # u} \cup {NewRow(id, u, h, n)}]

\* INSERT INTO usuarios (usuario, senha_hash, nome_completo) ... RETURNING id
InsertUsuario(tbl, id, u, h, n) ==
    IF UniqueViolation(tbl, u)
    THEN [code |-> "23505", rows |-> tbl]
    ELSE [code |-> "ok", rows |-> tbl \cup {NewRow(id, u, h, n)}]

\* an UPDATE whose WHERE matches no row
UpdateHashNowhere(tbl, id, h) == tbl

\* UPDATE usuarios SET senha_hash = $1 WHERE id = $2
UpdateHashById(tbl, id, h) ==
    {IF x.id = id THEN [x EXCEPT !.senha_hash = h] ELSE x : x \in tbl}

\* an UPDATE that hits every row
UpdateHashEveryLogin(tbl, u, h) == {[x EXCEPT !.senha_hash = h] : x \in tbl}

\* UPDATE usuarios SET senha_hash = $1 WHERE usuario = $2
UpdateHashByLogin(tbl, u, h) ==
    {IF x.usuario = u THEN [x EXCEPT !.senha_hash = h] ELSE x : x \in tbl}

\* the response record: every response has the same fields
Resp(kind, status, auth, tok, vnow, user, body) ==
    [kind |-> kind, status |-> status, auth |-> auth, tok |-> tok,
     vnow |-> vnow, user |-> user, body |-> body]

\* a response of a route without a token check
Public(kind, status, body) ==
    Resp(kind, status, "n/a", NoTok, 0, NoUser, body)

\* the 401 / 403 of verifyToken
Denied(kind, cred, v) ==
    Resp(kind, IF v.auth = "401" THEN 401 ELSE 403, v.auth, cred.tok, now,
         NoUser, Undefined)

Accepts == listening /\ nreq < MaxReq

\* app.listen(port): nothing at start-up looks at JWT_SECRET but a log line
Listen ==
    /\ ~listening
    /\ listening' = TRUE
    /\ UNCHANGED <<JWT_SECRET, usuarios, nextId, now, issued, reqs, nreq, lastResp,
                   resetOld, voided, ivars, catalogo_pecas>>

\* time passes
Tick ==
    /\ \E t \in Times : t > now /\ now' = t
    /\ UNCHANGED <<JWT_SECRET, usuarios, nextId, listening, issued, reqs, nreq,
                   lastResp, resetOld, voided, ivars, catalogo_pecas>>

\* the catch blocks: a store call that fails ends the request with 500
StoreFails(r) ==
    /\ r \in reqs
    /\ r.pc # "compare"
    /\ reqs' = reqs \ {r}
    /\ lastResp' = Resp(r.kind, 500, r.auth, r.tok, r.vnow, r.user, Undefined)
    /\ UNCHANGED <<JWT_SECRET, usuarios, nextId, listening, now, issued, nreq,
                   resetOld, voided, ivars, catalogo_pecas>>


\* a request in flight: the handler's position and its locals
Req(kind, pc, auth, tok, vnow, user, loc) ==
    [kind |-> kind, pc |-> pc, auth |-> auth, tok |-> tok,
     vnow |-> vnow, user |-> user, loc |-> loc]

PublicReq(kind, pc, loc) ==
    Req(kind, pc, "n/a", NoTok, 0, NoUser, loc)

At(r, pc, loc) == [r EXCEPT !.pc = pc, !.loc = loc]

Answer(r, status, body) ==
    Resp(r.kind, status, r.auth, r.tok, r.vnow, r.user, body)

-----------------------------------------------------------------------------
(* POST /api/register *)

\* validation, then bcrypt.hash, up to the INSERT
RegisterBegin(u, s, n) ==
    /\ Accepts
    /\ nreq' = nreq + 1
    /\ IF u = "" \/ s = ""
       THEN /\ lastResp' = Public("register", 400, Undefined)
            /\ UNCHANGED reqs
       ELSE /\ \E salt \in Salts :
                 reqs' = reqs \cup {PublicReq("register", "insert",
                                    [usuario |-> u, senhaHash |-> BcryptHash(s, salt),
                                     nome_completo |-> n])}
            /\ UNCHANGED lastResp
    /\ UNCHANGED <<JWT_SECRET, usuarios, nextId, listening, now, issued,
                   resetOld, voided, ivars, catalogo_pecas>>

\* the INSERT and the response: 201 with the new id, 409 on the unique violation
RegisterInsert(r) ==
    /\ r \in reqs
    /\ r.kind = "register"
    /\ LET res == InsertUsuario(usuarios, nextId, r.loc.usuario, r.loc.senhaHash,
                                r.loc.nome_completo)
       IN IF res.code = "23505"
          THEN /\ lastResp' = Answer(r, 409, [usuario |-> r.loc.usuario])
               /\ UNCHANGED <<usuarios, nextId>>
          ELSE /\ usuarios' = res.rows
               /\ nextId' = nextId + 1
               /\ lastResp' = Answer(r, 201, [usuario |-> r.loc.usuario, userId |-> nextId])
    /\ reqs' = reqs \ {r}
    /\ UNCHANGED <<JWT_SECRET, listening, now, issued, nreq, resetOld, voided,
                   ivars, catalogo_pecas>>

-----------------------------------------------------------------------------
(* POST /api/login *)

LoginBegin(u, s) ==
    /\ Accepts
    /\ nreq' = nreq + 1
    /\ IF u = "" \/ s = ""
       THEN /\ lastResp' = Public("login", 400, Undefined)
            /\ UNCHANGED reqs
       ELSE /\ reqs' = reqs \cup {PublicReq("login", "select",
                                  [usuario |-> u, senha |-> s])}
            /\ UNCHANGED lastResp
    /\ UNCHANGED <<JWT_SECRET, usuarios, nextId, listening, now, issued,
                   resetOld, voided, ivars, catalogo_pecas>>

\* SELECT * FROM usuarios WHERE usuario = $1: 401 when there is no row
LoginSelect(r) ==
    /\ r \in reqs
    /\ r.kind = "login"
    /\ r.pc = "select"
    /\ LET rows == {x \in usuarios : x.usuario = r.loc.usuario}
       IN IF rows = {}
          THEN /\ reqs' = reqs \ {r}
               /\ lastResp' = Answer(r, 401, [usuario |-> r.loc.usuario,
                                              senha |-> r.loc.senha])
          ELSE /\ \E x \in rows :
                    reqs' = (reqs \ {r}) \cup
                            {At(r, "compare", [usuario |-> r.loc.usuario,
                                               senha |-> r.loc.senha,
                                               row |-> x,
                                               voidedAtRead |-> voided[r.loc.usuario]])}
               /\ UNCHANGED lastResp
    /\ UNCHANGED <<JWT_SECRET, usuarios, nextId, listening, now, issued, nreq,
                   resetOld, voided, ivars, catalogo_pecas>>

\* bcrypt.compare, then jwt.sign (which throws without a secret: 500)
LoginFinish(r) ==
    /\ r \in reqs
    /\ r.kind = "login"
    /\ r.pc = "compare"
    /\ reqs' = reqs \ {r}
    /\ LET body == [usuario |-> r.loc.usuario, senha |-> r.loc.senha,
                    voidedAtRead |-> r.loc.voidedAtRead]
       IN IF ~BcryptCompare(r.loc.senha, r.loc.row.senha_hash)
          THEN /\ lastResp' = Answer(r, 401, body)
               /\ UNCHANGED issued
          ELSE IF JWT_SECRET = Undefined
               THEN /\ lastResp' = Answer(r, 500, body)
                    /\ UNCHANGED issued
               ELSE /\ issued' = issued \cup {JwtSign(r.loc.row, JWT_SECRET, now)}
                    /\ lastResp' = Answer(r, 200, body)
    /\ UNCHANGED <<JWT_SECRET, usuarios, nextId, listening, now, nreq,
                   resetOld, voided, ivars, catalogo_pecas>>

-----------------------------------------------------------------------------
(* The token-gated catalogue routes *)

\* the files on the NAS (and one outside it)
FsFiles == {<<"nas", "fotos", "PN-100", "a.jpg">>,
            <<"nas", "fotos", "PN-100", "b.png">>,
            <<"nas", "fotos", "PN-100", "notes.txt">>,
            <<"nas", "fotos", "PN-200", "b.png">>,
            <<"etc", "passwd">>}

\* the :filename values requested, as the segments between "/"
Filenames == {<<"a.jpg">>, <<"missing.jpg">>, <<"sub", "..", "a.jpg">>,
              <<"..", "PN-200", "b.png">>, <<"..", "..", "..", "etc", "passwd">>}

\* the part codes requested
Codes == {"PN-100", "PN-999"}

\* the (codPeca, filename) pairs requested
PhotoParams == {<<"PN-100", f>> : f \in Filenames} \cup {<<"PN-999", <<"a.jpg">>>>}

\* mime.lookup(name): by extension, false when unknown
MimeLookup(name) ==
    CASE name \in {"a.jpg", "missing.jpg"} -> "image/jpeg"
      [] name = "b.png" -> "image/png"
      [] name = "notes.txt" -> "text/plain"
      [] OTHER -> "false"

\* fs.promises.readdir(dir)
Readdir(dir) == {f[Len(f)] : f \in {g \in FsFiles : Len(g) = Len(dir) + 1 /\ IsPrefix(dir, g)}}

\* the catalogue as the indexing job leaves it over NasRoot
IndexedCatalog ==
    Upsert(Upsert({}, "PN-100", PathJoin(NasRoot, <<"PN-100">>), 1),
           "PN-200", PathJoin(NasRoot, <<"PN-200">>), 1)

\* GET /api/catalog/all
CatalogAll(cred) ==
    /\ Accepts
    /\ nreq' = nreq + 1
    /\ LET v == VerifyToken(cred, JWT_SECRET, now)
       IN IF v.auth # "ok"
          THEN lastResp' = Denied("catalog", cred, v)
          ELSE lastResp' = Resp("catalog", 200, v.auth, cred.tok, now, v.user,
                                {r.cod_peca : r \in catalogo_pecas})
    /\ UNCHANGED <<JWT_SECRET, usuarios, nextId, listening, now, issued, reqs,
                   resetOld, voided, ivars, catalogo_pecas>>

\* GET /api/search?cod_peca=
Search(cred, cod) ==
    /\ Accepts
    /\ nreq' = nreq + 1
    /\ LET v == VerifyToken(cred, JWT_SECRET, now)
           rows == {r \in catalogo_pecas : r.cod_peca = cod}
           A(status, body) == Resp("search", status, v.auth, cred.tok, now, v.user, body)
       IN IF v.auth # "ok"
          THEN lastResp' = Denied("search", cred, v)
          ELSE IF cod = ""
               THEN lastResp' = A(400, Undefined)
               ELSE IF rows = {}
                    THEN lastResp' = A(404, Undefined)
                    ELSE \E r \in rows :
                           lastResp' = A(200,
                              [cod_peca |-> cod,
                               fotos |-> {[filename |-> f, url |-> <<"api", "photo", cod, f>>] :
                                          f \in {g \in Readdir(r.caminho_nas) :
                                                 MimeLookup(g) \in {"image/jpeg", "image/png"}}}])
    /\ UNCHANGED <<JWT_SECRET, usuarios, nextId, listening, now, issued, reqs,
                   resetOld, voided, ivars, catalogo_pecas>>

\* GET /api/photo/:codPeca/:filename: the path opened is
\* path.join(caminho_nas, filename), with no check of where it lands
StreamPhoto(cred, cod, filename) ==
    /\ Accepts
    /\ nreq' = nreq + 1
    /\ LET v == VerifyToken(cred, JWT_SECRET, now)
           rows == {r \in catalogo_pecas : r.cod_peca = cod}
           A(status, body) == Resp("photo", status, v.auth, cred.tok, now, v.user, body)
       IN IF v.auth # "ok"
          THEN lastResp' = Denied("photo", cred, v)
          ELSE IF rows = {}
               THEN lastResp' = A(404, [opened |-> Undefined])
               ELSE \E r \in rows :
                      LET absolutePath == PathJoin(r.caminho_nas, filename)
                          mimeType == MimeLookup(filename[Len(filename)])
                      IN lastResp' = A(IF absolutePath \in FsFiles THEN 200 ELSE 500,
                                       [opened |-> absolutePath,
                                        dir |-> r.caminho_nas,
                                        contentType |-> IF mimeType = "false"
                                                        THEN "image/jpeg" ELSE mimeType])
    /\ UNCHANGED <<JWT_SECRET, usuarios, nextId, listening, now, issued, reqs,
                   resetOld, voided, ivars, catalogo_pecas>>

-----------------------------------------------------------------------------
(* POST /api/change-password *)

\* verifyToken and the validation of the body
ChangeBegin(cred, old, new) ==
    /\ Accepts
    /\ nreq' = nreq + 1
    /\ LET v == VerifyToken(cred, JWT_SECRET, now)
       IN IF v.auth # "ok"
          THEN /\ lastResp' = Denied("change", cred, v)
               /\ UNCHANGED reqs
          ELSE IF old = "" \/ new = ""
               THEN /\ lastResp' = Resp("change", 400, v.auth, cred.tok, now,
                                        v.user, Undefined)
                    /\ UNCHANGED reqs
               ELSE /\ reqs' = reqs \cup {Req("change", "select", v.auth, cred.tok,
                                              now, v.user,
                                              [senhaAntiga |-> old, novaSenha |-> new])}
                    /\ UNCHANGED lastResp
    /\ UNCHANGED <<JWT_SECRET, usuarios, nextId, listening, now, issued,
                   resetOld, voided, ivars, catalogo_pecas>>

\* a handler that goes on to the UPDATE whatever the comparison says
ChangeSelectNoCheck(r) ==
    /\ r \in reqs
    /\ r.kind = "change"
    /\ r.pc = "select"
    /\ \E x \in {y \in usuarios : y.id = r.user.id}, salt \in Salts :
          reqs' = (reqs \ {r}) \cup
                  {At(r, "update", [senhaAntiga |-> r.loc.senhaAntiga,
                                    novaSenha |-> r.loc.novaSenha,
                                    hashRead |-> x.senha_hash,
                                    novaSenhaHash |-> BcryptHash(r.loc.novaSenha, salt)])}
    /\ UNCHANGED <<JWT_SECRET, usuarios, nextId, listening, now, issued, nreq,
                   lastResp, resetOld, voided, ivars, catalogo_pecas>>

\* SELECT senha_hash ... WHERE id = $1 (404 without a row), bcrypt.compare
\* with senhaAntiga (401 on a mismatch), bcrypt.hash of novaSenha
ChangeSelect(r) ==
    /\ r \in reqs
    /\ r.kind = "change"
    /\ r.pc = "select"
    /\ LET rows == {y \in usuarios : y.id = r.user.id}
       IN IF rows = {}
          THEN /\ reqs' = reqs \ {r}
               /\ lastResp' = Answer(r, 404, Undefined)
          ELSE \E x \in rows :
                 IF ~BcryptCompare(r.loc.senhaAntiga, x.senha_hash)
                 THEN /\ reqs' = reqs \ {r}
                      /\ lastResp' = Answer(r, 401, [senhaAntiga |-> r.loc.senhaAntiga,
                                                     hashRead |-> x.senha_hash])
                 ELSE /\ \E salt \in Salts :
                           reqs' = (reqs \ {r}) \cup
                                   {At(r, "update",
                                       [senhaAntiga |-> r.loc.senhaAntiga,
                                        novaSenha |-> r.loc.novaSenha,
                                        hashRead |-> x.senha_hash,
                                        novaSenhaHash |-> BcryptHash(r.loc.novaSenha, salt)])}
                      /\ UNCHANGED lastResp
    /\ UNCHANGED <<JWT_SECRET, usuarios, nextId, listening, now, issued, nreq,
                   resetOld, voided, ivars, catalogo_pecas>>

\* UPDATE usuarios SET senha_hash = $1 WHERE id = $2, then 200
ChangeUpdate(r) ==
    /\ r \in reqs
    /\ r.kind = "change"
    /\ r.pc = "update"
    /\ reqs' = reqs \ {r}
    /\ usuarios' = UpdateHashById(usuarios, r.user.id, r.loc.novaSenhaHash)
    /\ lastResp' = Answer(r, 200,
                          [senhaAntiga |-> r.loc.senhaAntiga,
                           hashRead |-> r.loc.hashRead,
                           novaSenhaHash |-> r.loc.novaSenhaHash,
                           storedBefore |-> {y.senha_hash : y \in {z \in usuarios : z.id = r.user.id}}])
    /\ voided' = [u \in Logins |->
                    IF \E y \in usuarios : y.id = r.user.id /\ y.usuario = u
                    THEN voided[u] \ {r.loc.novaSenha} ELSE voided[u]]
    /\ UNCHANGED <<JWT_SECRET, nextId, listening, now, issued, nreq, resetOld,
                   ivars, catalogo_pecas>>

-----------------------------------------------------------------------------
(* POST /api/admin/reset-password *)

\* verifyAdminKey, the validation of the body, bcrypt.hash of novaSenha
ResetBegin(key, u, s) ==
    /\ Accepts
    /\ nreq' = nreq + 1
    /\ IF ~VerifyAdminKey(key)
       THEN /\ lastResp' = Public("reset", 403, Undefined)
            /\ UNCHANGED reqs
       ELSE IF u = "" \/ s = ""
            THEN /\ lastResp' = Public("reset", 400, Undefined)
                 /\ UNCHANGED reqs
            ELSE /\ \E salt \in Salts :
                      reqs' = reqs \cup {PublicReq("reset", "update",
                                         [usuario |-> u, novaSenha |-> s,
                                          novaSenhaHash |-> BcryptHash(s, salt)])}
                 /\ UNCHANGED lastResp
    /\ UNCHANGED <<JWT_SECRET, usuarios, nextId, listening, now, issued,
                   resetOld, voided, ivars, catalogo_pecas>>

\* UPDATE usuarios SET senha_hash = $1 WHERE usuario = $2: 404 when rowCount is 0
ResetUpdate(r) ==
    /\ r \in reqs
    /\ r.kind = "reset"
    /\ reqs' = reqs \ {r}
    /\ LET u == r.loc.usuario
           rows == {x \in usuarios : x.usuario = u}
           old == {x.senha_hash.pw : x \in rows}
           body == [usuario |-> u, novaSenha |-> r.loc.novaSenha]
       IN IF rows = {}
          THEN /\ lastResp' = Answer(r, 404, body)
               /\ UNCHANGED <<usuarios, resetOld, voided>>
          ELSE /\ usuarios' = UpdateHashByLogin(usuarios, u, r.loc.novaSenhaHash)
               /\ lastResp' = Answer(r, 200, body)
               /\ resetOld' = [resetOld EXCEPT ![u] = @ \cup old]
               /\ voided' = [voided EXCEPT ![u] = (@ \cup old) \ {r.loc.novaSenha}]
    /\ UNCHANGED <<JWT_SECRET, nextId, listening, now, issued, nreq, ivars,
                   catalogo_pecas>>

-----------------------------------------------------------------------------

\* the user registered before the behaviour starts
Ana == NewRow(1, "ana", BcryptHash("p1", "s1"), "Ana")

Init ==
    /\ IndexerIdle
    /\ NAS_ROOT_PATH = NasRoot
    /\ catalogo_pecas = IndexedCatalog
    /\ JWT_SECRET \in {Undefined, Secret}
    /\ usuarios = {Ana}
    /\ nextId = 2
    /\ listening = FALSE
    /\ now = 0
    /\ issued = {}
    /\ reqs = {}
    /\ nreq = 0
    /\ lastResp = Public("none", 0, Undefined)
    /\ resetOld = [u \in Logins |-> {}]
    /\ voided = [u \in Logins |-> {}]

Next ==
    \/ Listen
    \/ Tick
    \/ \E r \in reqs : StoreFails(r)
    \/ \E u \in Logins \cup {""}, s \in Passwords, n \in {"Bob"} : RegisterBegin(u, s, n)
    \/ \E r \in reqs : RegisterInsert(r)
    \/ \E u \in Logins, s \in Passwords \cup {""} : LoginBegin(u, s)
    \/ \E r \in reqs : LoginSelect(r)
    \/ \E r \in reqs : LoginFinish(r)
    \/ \E c \in Creds : CatalogAll(c)
    \/ \E c \in Creds, cod \in Codes \cup {""} : Search(c, cod)
    \/ \E c \in Creds, p \in PhotoParams : StreamPhoto(c, p[1], p[2])
    \/ \E c \in Creds, old \in Passwords \cup {""}, new \in Passwords : ChangeBegin(c, old, new)
    \/ \E r \in reqs : ChangeSelect(r)
    \/ \E r \in reqs : ChangeUpdate(r)
    \/ \E key \in {Undefined, AdminKey, "wrong"}, u \in Logins \cup {""}, s \in Passwords : ResetBegin(key, u, s)
    \/ \E r \in reqs : ResetUpdate(r)

Spec == Init /\ [][Next]_vars

-----------------------------------------------------------------------------
(* Properties of the service (checked under Spec) *)

GatedKinds == {"catalog", "search", "photo", "change"}

\* C1: every path StreamPhoto opens lies inside the indexed directory of the
\* part code, whatever the filename (".." segments included)
C1_TraversalSafe ==
    (lastResp.kind = "photo" /\ lastResp.auth = "ok" /\ lastResp.status \in {200, 500})
        => IsPrefix(lastResp.body.dir, lastResp.body.opened)

\* the outcome the token check must have had for x (a response or a request
\* in flight), from the token it carried and the time it was checked at
TokenOutcome(x) ==
    /\ x.tok = NoTok => x.auth = "401"
    /\ (x.tok # NoTok /\ (x.tok \notin issued \/ x.vnow >= x.tok.iat + 86400))
          => x.auth = "403"
    /\ (x.tok \in issued /\ x.vnow < x.tok.iat + 86400)
          => (x.auth = "ok" /\ x.user = [id |-> x.tok.id, usuario |-> x.tok.usuario])

\* C2: on every token-gated route, no token gives 401, a token that is not
\* one Login issued or that has reached its expiry (24 h after it was issued)
\* gives 403, and a token Login issued is accepted, with its user id and
\* login attached, at every time before that expiry, whatever happened to
\* the user's password in between
C2_TokenCheck ==
    /\ lastResp.kind \in GatedKinds =>
          /\ TokenOutcome(lastResp)
          /\ lastResp.auth = "401" => lastResp.status = 401
          /\ lastResp.auth = "403" => lastResp.status = 403
          /\ lastResp.auth = "ok" => lastResp.status # 403
          /\ (lastResp.auth = "ok" /\ lastResp.status = 401) => lastResp.kind = "change"
    /\ \A r \in reqs : r.kind = "change" => (TokenOutcome(r) /\ r.auth = "ok")

\* a token is accepted at a later time than it was issued at, after an admin
\* reset of its user's password
C2_Witness ==
    /\ lastResp.kind \in GatedKinds
    /\ lastResp.auth = "ok"
    /\ lastResp.vnow = 86399
    /\ lastResp.tok.iat = 0
    /\ resetOld[lastResp.user.usuario] # {}

\* C3: at most one row per login; a Register whose INSERT meets a row with
\* its login answers 409 and leaves the table as it is
C3_RegisterUnique ==
    [][/\ \A x, y \in usuarios' : x.usuario = y.usuario => x = y
       /\ \A r \in reqs :
             (/\ r.kind = "register"
              /\ r \notin reqs'
              /\ lastResp'.status # 500
              /\ \E x \in usuarios : x.usuario = r.loc.usuario)
             => (/\ lastResp'.kind = "register"
                 /\ lastResp'.status = 409
                 /\ usuarios' = usuarios)]_vars

\* a second Register of a login created in this behaviour has been refused
C3_Witness ==
    /\ lastResp.kind = "register"
    /\ lastResp.status = 409
    /\ lastResp.body.usuario = "bob"
    /\ Cardinality(usuarios) = 2

\* C4: a ChangePassword whose senhaAntiga does not match the hash stored for
\* the caller when the handler reads it answers 401 and leaves every row of
\* usuarios as it is (a failed SELECT answers 500 instead)
C4_WrongOldPasswordNoMutation ==
    [][\A r \in reqs :
          (/\ r.kind = "change"
           /\ r.pc = "select"
           /\ r \notin reqs'
           /\ ~(reqs' = reqs \ {r} /\ lastResp'.status = 500)
           /\ \E x \in usuarios : /\ x.id = r.user.id
                                  /\ ~BcryptCompare(r.loc.senhaAntiga, x.senha_hash))
          => (/\ reqs' = reqs \ {r}
              /\ lastResp'.kind = "change"
              /\ lastResp'.status = 401
              /\ usuarios' = usuarios)]_vars

\* a ChangePassword has been refused for its old password
C4_Witness ==
    /\ lastResp.kind = "change"
    /\ lastResp.status = 401
    /\ lastResp.auth = "ok"
    /\ ~BcryptCompare(lastResp.body.senhaAntiga, lastResp.body.hashRead)

\* what the reset of r does to the table: 404 and nothing for an unknown
\* login, else 200 and the login's hash becomes one of novaSenha, the other
\* rows staying as they are
ResetEffect(r) ==
    LET u == r.loc.usuario
    IN IF \A x \in usuarios : x.usuario # u
       THEN /\ lastResp'.kind = "reset"
            /\ lastResp'.status = 404
            /\ usuarios' = usuarios
       ELSE /\ lastResp'.kind = "reset"
            /\ lastResp'.status = 200
            /\ \A x \in usuarios' : x.usuario = u => BcryptCompare(r.loc.novaSenha, x.senha_hash)
            /\ \A x \in usuarios : x.usuario # u => x \in usuarios'
            /\ {x.id : x \in usuarios'} = {x.id : x \in usuarios}

\* C5 as stated: an AdminResetPassword with a valid key answers 404 for an
\* unknown login and mutates no row; for a known login it overwrites the hash,
\* and once it has answered 200 no Login with the password it overwrote succeeds
C5_ResetOriginal ==
    [][/\ \A r \in reqs :
             (r.kind = "reset" /\ r \notin reqs' /\ lastResp'.status # 500) => ResetEffect(r)
       /\ (lastResp'.kind = "login" /\ lastResp'.status = 200)
             => lastResp'.body.senha \notin resetOld'[lastResp'.body.usuario]]_vars

\* C5, amended: an AdminResetPassword with a valid key answers 404 for an
\* unknown login and mutates no row; for a known login it answers 200 and
\* overwrites that login's hash with a hash of novaSenha, so that a Login
\* that reads the row afterwards is refused with the overwritten password,
\* unless novaSenha is that password or a later ChangePassword or reset has
\* set it again
C5_ResetAmended ==
    [][/\ \A r \in reqs :
             (r.kind = "reset" /\ r \notin reqs' /\ lastResp'.status # 500) => ResetEffect(r)
       /\ (lastResp'.kind = "login" /\ lastResp'.status = 200)
             => lastResp'.body.senha \notin lastResp'.body.voidedAtRead]_vars

\* a Login with the password a reset overwrote has been refused
C5_Witness ==
    /\ lastResp.kind = "login"
    /\ lastResp.status = 401
    /\ lastResp.body.usuario = "ana"
    /\ lastResp.body.senha \in resetOld["ana"]
    /\ lastResp.body.senha \in voided["ana"]

\* C9: without a JWT_SECRET the service never listens and handles no request;
\* without a NAS_ROOT_PATH the indexing job connects to nothing and scans nothing
C9_FatalConfig ==
    /\ JWT_SECRET = Undefined => (~listening /\ nreq = 0)
    /\ NAS_ROOT_PATH = NoRoot =>
          (ipc \in {"off", "load", "aborted"} /\ client = "none" /\ task = NoTasks)

\* C10 as stated: a ChangePassword overwrites the hash only if its
\* senhaAntiga matches the hash stored at the moment of the overwrite
C10_Original ==
    (lastResp.kind = "change" /\ lastResp.status = 200)
        => \A h \in lastResp.body.storedBefore : BcryptCompare(lastResp.body.senhaAntiga, h)

\* C10, amended: a ChangePassword overwrites the hash only if its senhaAntiga
\* matched the hash the handler read; a hash another request stored between
\* that read and the UPDATE is overwritten all the same (the last write wins)
C10_LastWriteWins ==
    /\ \A r \in reqs :
          (r.kind = "change" /\ r.pc = "update")
              => BcryptCompare(r.loc.senhaAntiga, r.loc.hashRead)
    /\ (lastResp.kind = "change" /\ lastResp.status = 200) =>
          /\ BcryptCompare(lastResp.body.senhaAntiga, lastResp.body.hashRead)
          /\ \A x \in usuarios :
                x.id = lastResp.user.id => x.senha_hash = lastResp.body.novaSenhaHash

\* a ChangePassword has overwritten a hash stored after its own read
C10_Witness ==
    /\ lastResp.kind = "change"
    /\ lastResp.status = 200
    /\ \E h \in lastResp.body.storedBefore : h # lastResp.body.hashRead

-----------------------------------------------------------------------------
(* Properties of the indexing job (checked under SpecIndexer) *)

\* C6: a run in which nothing fails reports as many indexed as the root has
\* directories and as many skipped as it has other entries, and the catalogue
\* holds one entry per directory
C6_FinalCounts ==
    (ipc = "exited" /\ ~failed) =>
        /\ indexedCount = Cardinality(Dirs)
        /\ errorCount = Cardinality(Files)
        /\ \A i \in Dirs : Cardinality({r \in catalogo_pecas : r.cod_peca = i}) = 1

C8_BestEffortFanOut ==
    /\ (client = "released" \/ ipc = "exited") => \A i \in DOMAIN task : task[i] \in Settled
    /\ ipc = "exited" =>
          /\ indexedCount = Cardinality({i \in DOMAIN task : task[i] = "ok"})
          /\ errorCount = Cardinality({i \in DOMAIN task : task[i] = "err"})
          /\ snap[Len(snap)].indexed = indexedCount
          /\ snap[Len(snap)].errors = errorCount
          /\ \A i \in DOMAIN task :
                (fsRoot[i] = "dir" /\ task[i] # "err") =>
                    [cod_peca |-> i, caminho_nas |-> NasRoot \o <<i>>]
                        \in Entries(catalogo_pecas)

\* a run has ended with one entry failed and another indexed
C8_Witness ==
    /\ ipc = "exited"
    /\ \E i, j \in DOMAIN task : task[i] = "err" /\ task[j] = "ok"
    /\ errorCount = 1

=============================================================================
